---- MODULE Spec2Model ----
(***************************************************************************)
(* Decision-tree training and classification of dectree.c / dectree.h.     *)
(*                                                                         *)
(* A C double is modelled as an exact rational, NaN or +infinity.  Every   *)
(* double the program computes is a quotient of small non-negative         *)
(* integers, so the only IEEE behaviour that is kept is the one the code   *)
(* depends on: 0/0 is NaN, NaN propagates through + - * /, and every       *)
(* ordered comparison with NaN is false while != with NaN is true.         *)
(* Rounding of the quotients is not modelled.                              *)
(*                                                                         *)
(* The program's 784 pixels, 10 labels and 256 intensities are scaled to   *)
(* NumPixels, NumLabels and the representative set Intensities.            *)
(*                                                                         *)
(* find_best_split returns a local that it may never have assigned, and    *)
(* build_subtree uses the result as a pixel index.  The unassigned local   *)
(* is any int (GarbageInts); a read at an index outside an image's block   *)
(* either faults or yields the byte the heap holds there, which is any     *)
(* byte, the same at every later read of that address (heap).              *)
(*                                                                         *)
(* build_subtree is recursive.  One step of the model is one call: the     *)
(* call at the head of stack runs up to its two recursive calls, which are *)
(* put on stack in the order the code makes them.  A tree node is named by *)
(* its path from the root (0 = left, 1 = right); besides the fields of     *)
(* DTNode a node records the subset (M, indices) and the result of         *)
(* get_most_frequent (label, freq) of the call that emitted it.            *)
(***************************************************************************)
EXTENDS Integers, Sequences, FiniteSets, TLC

MaxN == 2
MaxFnN == 3
NumPixels == 1
NumLabels == 2
\* A recursion that returns halves a subset of N examples into non-empty
\* sides at most N - 1 times in a row; a call nested MaxDepth deep belongs to
\* a recursion that no longer shrinks its subset and ends in stack_overflow.
MaxDepth == MaxN

\* intensities: 0 and 255 are the two values of a binarised image, 100 is a
\* grey below 128.  A dataset draws its pixels from one palette.
Intensities == {0, 100, 255}
Palettes == {{0, 255}, {100, 255}}
FnPalette == {100, 255}
Labels == 0 .. (NumLabels - 1)
Pixels == 0 .. (NumPixels - 1)

VARIABLES data, heap, pc, stack, tree, predicted, total_correct, call

vars == <<data, heap, pc, stack, tree, predicted, total_correct, call>>

(***************************************************************************)
(* double                                                                  *)
(***************************************************************************)
RECURSIVE GCD(_, _)
GCD(a, b) == IF b = 0 THEN a ELSE GCD(b, a % b)

\* TheValue({e(x) : x \in {v}}) is e(x) with x bound to the value of v, so
\* that v is computed once however often e uses it
TheValue(S) == CHOOSE v \in S : TRUE

Rat(n, d) == TheValue({[k |-> "rat", n |-> n \div g, d |-> d \div g] : g \in {GCD(n, d)}})
NAN == [k |-> "nan", n |-> 0, d |-> 1]
INFINITY == [k |-> "inf", n |-> 1, d |-> 1]
ToDouble(i) == [k |-> "rat", n |-> i, d |-> 1]

DDiv(a, b) == TheValue({
    IF x.k = "nan" \/ y.k = "nan" THEN NAN
    ELSE IF x.k = "inf" THEN (IF y.k = "inf" THEN NAN ELSE INFINITY)
    ELSE IF y.k = "inf" THEN Rat(0, 1)
    ELSE IF y.n = 0 THEN (IF x.n = 0 THEN NAN ELSE INFINITY)
    ELSE Rat(x.n * y.d, x.d * y.n) : x \in {a}, y \in {b}})

DMul(a, b) == TheValue({
    IF x.k = "nan" \/ y.k = "nan" THEN NAN
    ELSE IF x.k = "inf" THEN (IF y.k = "rat" /\ y.n = 0 THEN NAN ELSE INFINITY)
    ELSE IF y.k = "inf" THEN (IF x.n = 0 THEN NAN ELSE INFINITY)
    ELSE Rat(x.n * y.n, x.d * y.d) : x \in {a}, y \in {b}})

DAdd(a, b) == TheValue({
    IF x.k = "nan" \/ y.k = "nan" THEN NAN
    ELSE IF x.k = "inf" \/ y.k = "inf" THEN INFINITY
    ELSE Rat(x.n * y.d + y.n * x.d, x.d * y.d) : x \in {a}, y \in {b}})

\* a - b, used only as 1 - a_i with 0 <= a_i <= 1
DSub(a, b) == TheValue({
    IF x.k = "nan" \/ y.k = "nan" THEN NAN
    ELSE IF x.k = "inf" THEN (IF y.k = "inf" THEN NAN ELSE INFINITY)
    ELSE Rat(x.n * y.d - y.n * x.d, x.d * y.d) : x \in {a}, y \in {b}})

DLt(a, b) == \E x \in {a}, y \in {b} :
    IF x.k = "nan" \/ y.k = "nan" THEN FALSE
    ELSE IF x.k = "inf" THEN FALSE
    ELSE IF y.k = "inf" THEN TRUE
    ELSE x.n * y.d < y.n * x.d

DEq(a, b) == \E x \in {a}, y \in {b} :
    IF x.k = "nan" \/ y.k = "nan" THEN FALSE
    ELSE IF x.k = "inf" \/ y.k = "inf" THEN x.k = y.k
    ELSE x.n * y.d = y.n * x.d

DNe(a, b) == ~DEq(a, b)

DGe(a, b) == \E x \in {a}, y \in {b} :
    IF x.k = "nan" \/ y.k = "nan" THEN FALSE
    ELSE DEq(x, y) \/ DLt(y, x)

THRESHOLD_RATIO == Rat(95, 100)

(***************************************************************************)
(* Memory.  data.images[i] is the NumPixels-byte block of image i; a read  *)
(* at an index outside the block returns the byte the heap holds there.    *)
(***************************************************************************)
\* UNREAD: a heap byte outside the image blocks that no read has fixed yet.
\* UNINIT: the content of best_split before its first assignment.
UNREAD == 256
UNINIT == -999
NULL == "NULL"

ReadPixel(d, h, img_idx, pixel) ==
    IF pixel \in Pixels THEN d.images[img_idx][pixel] ELSE h[img_idx]

(***************************************************************************)
(* gini_impurity                                                           *)
(***************************************************************************)
\* GiniLoop with the factor (1 - a_i) replaced by a_i
RECURSIVE GiniLoop_SquareOnly(_, _, _, _)
GiniLoop_SquareOnly(freq, count, i, gini) ==
    IF i >= NumLabels THEN gini
    ELSE TheValue({GiniLoop_SquareOnly(freq, count, i + 1, DAdd(gini, DMul(a_i, a_i))) :
                      a_i \in {DDiv(ToDouble(freq[i]), ToDouble(count))}})

RECURSIVE GiniLoop(_, _, _, _)
GiniLoop(freq, count, i, gini) ==
    IF i >= NumLabels THEN gini
    ELSE TheValue({GiniLoop(freq, count, i + 1, DAdd(gini, DMul(a_i, DSub(ToDouble(1), a_i)))) :
                      a_i \in {DDiv(ToDouble(freq[i]), ToDouble(count))}})

gini_impurity(d, M, indices, pixel) ==
    LET inA(i) == d.images[indices[i]][pixel] < 128
    IN TheValue({
          DDiv(DAdd(DMul(GiniLoop(a_freq, a_count, 0, ToDouble(0)), ToDouble(a_count)),
                    DMul(GiniLoop(b_freq, b_count, 0, ToDouble(0)), ToDouble(b_count))),
               ToDouble(M)) :
            a_freq \in {[l \in Labels |->
                            Cardinality({i \in 1 .. M : inA(i) /\ d.labels[indices[i]] = l})]},
            b_freq \in {[l \in Labels |->
                            Cardinality({i \in 1 .. M : ~inA(i) /\ d.labels[indices[i]] = l})]},
            a_count \in {Cardinality({i \in 1 .. M : inA(i)})},
            b_count \in {Cardinality({i \in 1 .. M : ~inA(i)})}})

(***************************************************************************)
(* get_most_frequent                                                       *)
(***************************************************************************)
\* MostFrequentLoop with >= in place of >: the last label of maximal count wins
RECURSIVE MostFrequentLoop_LastWins(_, _, _, _)
MostFrequentLoop_LastWins(frequencies, k, label, freq) ==
    IF k >= NumLabels THEN [label |-> label, freq |-> freq]
    ELSE IF frequencies[k] >= freq THEN MostFrequentLoop_LastWins(frequencies, k + 1, k, frequencies[k])
    ELSE MostFrequentLoop_LastWins(frequencies, k + 1, label, freq)

RECURSIVE MostFrequentLoop(_, _, _, _)
MostFrequentLoop(frequencies, k, label, freq) ==
    IF k >= NumLabels THEN [label |-> label, freq |-> freq]
    ELSE IF frequencies[k] > freq THEN MostFrequentLoop(frequencies, k + 1, k, frequencies[k])
    ELSE IF frequencies[k] = freq /\ k < label THEN MostFrequentLoop(frequencies, k + 1, k, frequencies[k])
    ELSE MostFrequentLoop(frequencies, k + 1, label, freq)

get_most_frequent(d, M, indices) ==
    TheValue({MostFrequentLoop(frequencies, 0, -1, -1) :
        frequencies \in {[l \in Labels |-> Cardinality({j \in 1 .. M : d.labels[indices[j]] = l})]}})

(***************************************************************************)
(* find_best_split.  best_split is declared without an initialiser, so it  *)
(* is UNINIT until a pixel is accepted.  The read of best_split in the     *)
(* equal-impurity branch happens only after an assignment: the branch      *)
(* needs pixel_impurity == min_impurity, and no impurity equals INFINITY.  *)
(***************************************************************************)
RECURSIVE BestSplitLoop(_, _, _, _, _, _)
BestSplitLoop(d, M, indices, i, best_split, min_impurity) ==
    IF i >= NumPixels THEN best_split
    ELSE TheValue({
            IF DLt(pixel_impurity, min_impurity) /\ DNe(pixel_impurity, NAN)
            THEN BestSplitLoop(d, M, indices, i + 1, i, pixel_impurity)
            ELSE IF DEq(pixel_impurity, min_impurity) /\ DNe(pixel_impurity, NAN)
            THEN (IF i < best_split
                  THEN BestSplitLoop(d, M, indices, i + 1, i, pixel_impurity)
                  ELSE BestSplitLoop(d, M, indices, i + 1, best_split, min_impurity))
            ELSE BestSplitLoop(d, M, indices, i + 1, best_split, min_impurity) :
                pixel_impurity \in {gini_impurity(d, M, indices, i)}})

find_best_split(d, M, indices) == BestSplitLoop(d, M, indices, 0, UNINIT, INFINITY)

\* the values an uninitialised int can hold: a pixel, or an int outside
\* 0..NumPixels-1 (one representative, the first index past the block)
GarbageInts == 0 .. NumPixels

(***************************************************************************)
(* split_data                                                              *)
(***************************************************************************)
\* SplitLoop filling the left array from its end
RECURSIVE SplitLoop_LeftReversed(_, _, _, _, _, _, _, _)
SplitLoop_LeftReversed(d, h, M, indices, pixel, j, left, right) ==
    IF j > M THEN <<left, right>>
    ELSE LET index == indices[j]
         IN IF ReadPixel(d, h, index, pixel) < 128
            THEN SplitLoop_LeftReversed(d, h, M, indices, pixel, j + 1, <<index>> \o left, right)
            ELSE SplitLoop_LeftReversed(d, h, M, indices, pixel, j + 1, left, Append(right, index))

RECURSIVE SplitLoop(_, _, _, _, _, _, _, _)
SplitLoop(d, h, M, indices, pixel, j, left, right) ==
    IF j > M THEN <<left, right>>
    ELSE LET index == indices[j]
         IN IF ReadPixel(d, h, index, pixel) < 128
            THEN SplitLoop(d, h, M, indices, pixel, j + 1, Append(left, index), right)
            ELSE SplitLoop(d, h, M, indices, pixel, j + 1, left, Append(right, index))

split_data(d, h, M, indices, pixel, left_size, right_size) ==
    LET isLeft(i) == ReadPixel(d, h, indices[i], pixel) < 128
    IN [subsets |-> SplitLoop(d, h, M, indices, pixel, 1, <<>>, <<>>),
        left_size |-> left_size + Cardinality({i \in 1 .. M : isLeft(i)}),
        right_size |-> right_size + Cardinality({i \in 1 .. M : ~isLeft(i)})]

(***************************************************************************)
(* dec_tree_classify.  t maps a node's address (its path from the root)    *)
(* to the node; RoutedLeaf is the address of the node the walk returns at. *)
(***************************************************************************)
\* dec_tree_classify with the two children exchanged
RECURSIVE dec_tree_classify_Swapped(_, _, _, _, _)
dec_tree_classify_Swapped(t, root, d, h, img_idx) ==
    IF t[root].classification # -1 THEN t[root].classification
    ELSE IF ReadPixel(d, h, img_idx, t[root].pixel) = 0
         THEN dec_tree_classify_Swapped(t, t[root].right, d, h, img_idx)
         ELSE dec_tree_classify_Swapped(t, t[root].left, d, h, img_idx)

RECURSIVE dec_tree_classify(_, _, _, _, _)
dec_tree_classify(t, root, d, h, img_idx) ==
    IF t[root].classification # -1 THEN t[root].classification
    ELSE IF ReadPixel(d, h, img_idx, t[root].pixel) = 0
         THEN dec_tree_classify(t, t[root].left, d, h, img_idx)
         ELSE dec_tree_classify(t, t[root].right, d, h, img_idx)

RECURSIVE RoutedLeaf(_, _, _, _, _)
RoutedLeaf(t, root, d, h, img_idx) ==
    IF t[root].classification # -1 THEN root
    ELSE IF ReadPixel(d, h, img_idx, t[root].pixel) = 0
         THEN RoutedLeaf(t, t[root].left, d, h, img_idx)
         ELSE RoutedLeaf(t, t[root].right, d, h, img_idx)

(***************************************************************************)
(* State                                                                   *)
(***************************************************************************)
\* data is a dataset of N images over the intensities V, as load_dataset
\* builds it
IsDataset(d, N, V) ==
    \E images \in [0 .. (N - 1) -> [Pixels -> V]], labels \in [0 .. (N - 1) -> Labels] :
        d = [num_items |-> N, images |-> images, labels |-> labels]

NoCall == [fn |-> "none", M |-> 0, indices |-> <<>>, pixel |-> -1, result |-> 0]

Range(s) == {s[i] : i \in 1 .. Len(s)}

\* heaps that agree with h on every byte already read and hold a byte for
\* every image of idxs
HeapFill(h, idxs) ==
    {g \in [DOMAIN h -> Intensities \cup {UNREAD}] :
        \A i \in DOMAIN h : /\ (h[i] # UNREAD \/ i \notin idxs) => g[i] = h[i]
                            /\ i \in idxs => g[i] # UNREAD}

Init ==
    /\ \E N \in 1 .. MaxN, V \in Palettes : IsDataset(data, N, V)
    /\ heap = [i \in 0 .. (data.num_items - 1) |-> UNREAD]
    /\ pc = "main"
    /\ stack = <<>>
    /\ tree = <<>>
    /\ predicted = <<>>
    /\ total_correct = 0
    /\ call = NoCall

(***************************************************************************)
(* build_dec_tree: the indices of the whole dataset, then the first call   *)
(* of build_subtree.  stack holds the calls of build_subtree that have not *)
(* run yet, the innermost left call first.                                 *)
(***************************************************************************)
build_dec_tree ==
    /\ pc = "main"
    /\ LET M == data.num_items
           indices == [i \in 1 .. M |-> i - 1]
       IN stack' = <<[path |-> <<>>, M |-> M, indices |-> indices]>>
    /\ pc' = "build"
    /\ UNCHANGED <<data, heap, tree, predicted, total_correct, call>>

LeafNode(c, mf) ==
    [pixel |-> -1, classification |-> mf.label, left |-> NULL, right |-> NULL,
     M |-> c.M, indices |-> c.indices, label |-> mf.label, freq |-> mf.freq]

SplitNode(c, mf, pixel_split) ==
    [pixel |-> pixel_split, classification |-> -1,
     left |-> Append(c.path, 0), right |-> Append(c.path, 1),
     M |-> c.M, indices |-> c.indices, label |-> mf.label, freq |-> mf.freq]

\* the leaf test with a simple majority as threshold
IsLeafRatio_Half(freq, M) == DGe(DDiv(ToDouble(freq), ToDouble(M)), Rat(1, 2))

IsLeafRatio(freq, M) == DGe(DDiv(ToDouble(freq), ToDouble(M)), THRESHOLD_RATIO)

build_subtree ==
    /\ pc = "build"
    /\ stack # <<>>
    /\ Len(Head(stack).path) < MaxDepth
    /\ \E c \in {Head(stack)} : \E mf \in {get_most_frequent(data, c.M, c.indices)} :
          IF IsLeafRatio(mf.freq, c.M)
          THEN /\ tree' = (c.path :> LeafNode(c, mf)) @@ tree
               /\ stack' = Tail(stack)
               /\ pc' = IF Tail(stack) = <<>> THEN "built" ELSE "build"
               /\ heap' = heap
          ELSE \E best_split \in {find_best_split(data, c.M, c.indices)} :
                  \E garbage \in GarbageInts :
                    \E pixel_split \in {IF best_split = UNINIT THEN garbage ELSE best_split} :
                       \/ /\ pixel_split \notin Pixels
                          /\ c.M > 0
                          /\ pc' = "segv"
                          /\ UNCHANGED <<heap, tree, stack>>
                       \/ \E h \in (IF pixel_split \in Pixels THEN {heap}
                                    ELSE HeapFill(heap, Range(c.indices))) :
                            \E s \in {split_data(data, h, c.M, c.indices, pixel_split, 0, 0)} :
                               /\ heap' = h
                               /\ tree' = (c.path :> SplitNode(c, mf, pixel_split)) @@ tree
                               /\ stack' = <<[path |-> Append(c.path, 0), M |-> s.left_size,
                                              indices |-> s.subsets[1]],
                                             [path |-> Append(c.path, 1), M |-> s.right_size,
                                              indices |-> s.subsets[2]]>> \o Tail(stack)
                               /\ pc' = "build"
    /\ UNCHANGED <<data, predicted, total_correct, call>>

\* the recursion nests without bound and uses up the native stack
stack_overflow ==
    /\ pc = "build"
    /\ stack # <<>>
    /\ Len(Head(stack).path) >= MaxDepth
    /\ pc' = "overflow"
    /\ UNCHANGED <<data, heap, stack, tree, predicted, total_correct, call>>

(***************************************************************************)
(* main's loop, run on the examples the tree was trained on.               *)
(***************************************************************************)
HasStrayPixel(t) == \E p \in DOMAIN t : t[p].classification = -1 /\ t[p].pixel \notin Pixels

\* the walk of dec_tree_classify for image img_idx reads outside the image
RECURSIVE ReadsStray(_, _, _, _, _)
ReadsStray(t, root, d, h, img_idx) ==
    IF t[root].classification # -1 THEN FALSE
    ELSE \/ t[root].pixel \notin Pixels
         \/ IF ReadPixel(d, h, img_idx, t[root].pixel) = 0
            THEN ReadsStray(t, t[root].left, d, h, img_idx)
            ELSE ReadsStray(t, t[root].right, d, h, img_idx)

classify_training ==
    /\ pc = "built"
    /\ \E h \in (IF HasStrayPixel(tree) THEN HeapFill(heap, DOMAIN heap) ELSE {heap}) :
         \/ /\ \E i \in 0 .. (data.num_items - 1) : ReadsStray(tree, <<>>, data, h, i)
            /\ pc' = "segv"
            /\ UNCHANGED <<heap, predicted, total_correct>>
         \/ \E predicted_label \in {[i \in 0 .. (data.num_items - 1) |->
                                       dec_tree_classify(tree, <<>>, data, h, i)]} :
               /\ heap' = h
               /\ predicted' = predicted_label
               /\ total_correct' = Cardinality({i \in 0 .. (data.num_items - 1) :
                                                   predicted_label[i] = data.labels[i]})
               /\ pc' = "done"
    /\ UNCHANGED <<data, stack, tree, call>>

Next == build_dec_tree \/ build_subtree \/ stack_overflow \/ classify_training

Spec == Init /\ [][Next]_vars

(***************************************************************************)
(* The functions of dectree.c applied one at a time to an index subset of  *)
(* a dataset: the indices from some first index on, in increasing order    *)
(* as build_dec_tree and split_data produce them (the whole dataset, a     *)
(* tail of it whose indices differ from their positions, or no index).     *)
(***************************************************************************)
IndexSubsets(d) ==
    {[j \in 1 .. (d.num_items - first) |-> first + j - 1] : first \in 0 .. d.num_items}

InitFn ==
    /\ \E N \in 1 .. MaxFnN : IsDataset(data, N, FnPalette)
    /\ heap = [i \in 0 .. (data.num_items - 1) |-> UNREAD]
    /\ pc = "fn"
    /\ stack = <<>>
    /\ tree = <<>>
    /\ predicted = <<>>
    /\ total_correct = 0
    /\ call = NoCall

call_get_most_frequent ==
    /\ pc = "fn"
    /\ \E indices \in IndexSubsets(data) :
         call' = [fn |-> "get_most_frequent", M |-> Len(indices), indices |-> indices,
                  pixel |-> -1,
                  result |-> get_most_frequent(data, Len(indices), indices)]
    /\ pc' = "returned"
    /\ UNCHANGED <<data, heap, stack, tree, predicted, total_correct>>

call_gini_impurity ==
    /\ pc = "fn"
    /\ \E indices \in IndexSubsets(data), pixel \in Pixels :
         call' = [fn |-> "gini_impurity", M |-> Len(indices), indices |-> indices,
                  pixel |-> pixel,
                  result |-> gini_impurity(data, Len(indices), indices, pixel)]
    /\ pc' = "returned"
    /\ UNCHANGED <<data, heap, stack, tree, predicted, total_correct>>

call_find_best_split ==
    /\ pc = "fn"
    /\ \E indices \in IndexSubsets(data) :
         \E best_split \in {find_best_split(data, Len(indices), indices)} :
           \E garbage \in GarbageInts :
             call' = [fn |-> "find_best_split", M |-> Len(indices), indices |-> indices,
                      pixel |-> -1,
                      result |-> IF best_split = UNINIT THEN garbage ELSE best_split]
    /\ pc' = "returned"
    /\ UNCHANGED <<data, heap, stack, tree, predicted, total_correct>>

call_split_data ==
    /\ pc = "fn"
    /\ \E indices \in IndexSubsets(data), pixel \in Pixels :
         call' = [fn |-> "split_data", M |-> Len(indices), indices |-> indices,
                  pixel |-> pixel,
                  result |-> split_data(data, heap, Len(indices), indices, pixel, 0, 0)]
    /\ pc' = "returned"
    /\ UNCHANGED <<data, heap, stack, tree, predicted, total_correct>>

NextFn ==
    \/ call_get_most_frequent
    \/ call_gini_impurity
    \/ call_find_best_split
    \/ call_split_data

SpecFn == InitFn /\ [][NextFn]_vars

(***************************************************************************)
(* Properties                                                              *)
(***************************************************************************)
Returned == pc \in {"built", "done"}

IsLeaf(n) == n.classification # -1

\* number of examples of the index sequence idx that carry label l
LabelCount(idx, l) == Cardinality({j \in 1 .. Len(idx) : data.labels[idx[j]] = l})

MaxLabelCount(idx) == CHOOSE c \in 0 .. Len(idx) :
    /\ \E l \in Labels : LabelCount(idx, l) = c
    /\ \A l \in Labels : LabelCount(idx, l) <= c

SmallestMostFrequent(idx) == CHOOSE l \in Labels :
    /\ LabelCount(idx, l) = MaxLabelCount(idx)
    /\ \A m \in Labels : LabelCount(idx, m) = MaxLabelCount(idx) => l <= m

\* C1: for every non-empty dataset the recursion of build_subtree comes to an
\* end and build_dec_tree returns a tree; the recursion never nests without
\* bound, also when pixel-identical images carry different labels.
C1_BuildTerminates == pc # "overflow"

\* C2: on every non-empty index subset find_best_split returns a pixel in
\* 0..NumPixels-1 whose gini_impurity on the subset is defined, and that pixel
\* is the smallest one among the pixels of minimum defined impurity.
C2_BestSplitDefinedMinimal ==
    (call.fn = "find_best_split" /\ call.M >= 1) =>
        /\ call.result \in Pixels
        /\ LET g(p) == gini_impurity(data, call.M, call.indices, p)
           IN /\ g(call.result).k = "rat"
              /\ \A p \in Pixels : g(p).k = "rat" =>
                    /\ ~DLt(g(p), g(call.result))
                    /\ DEq(g(p), g(call.result)) => call.result <= p

\* C3: in a returned tree every leaf was emitted for a subset of size M >= 1
\* whose most frequent label has count c with c/M >= 0.95 and carries that
\* label (the smallest one on ties); every split node was emitted for a subset
\* with c/M < 0.95; a dataset with a single label yields a single leaf.
C3_LeafIffRatio ==
    Returned =>
        /\ \A p \in DOMAIN tree :
              LET n == tree[p]
                  c == MaxLabelCount(n.indices)
              IN IF IsLeaf(n)
                 THEN /\ n.M >= 1
                      /\ n.M = Len(n.indices)
                      /\ 100 * c >= 95 * n.M
                      /\ n.classification = SmallestMostFrequent(n.indices)
                 ELSE 100 * c < 95 * n.M
        /\ (\A i \in 0 .. (data.num_items - 1) : data.labels[i] = data.labels[0]) =>
              /\ DOMAIN tree = {<<>>}
              /\ tree[<<>>].classification = data.labels[0]

C3_Witness ==
    /\ pc = "done"
    /\ ~IsLeaf(tree[<<>>])
    /\ IsLeaf(tree[<<0>>])
    /\ IsLeaf(tree[<<1>>])
    /\ tree[<<0>>].classification # tree[<<1>>].classification

\* C4: a call of build_subtree on an empty subset (M = 0) emits a leaf with a
\* label in 0..NumLabels-1: it does not choose a split and makes no further
\* call.
C4_EmptySideIsLeaf ==
    \A p \in DOMAIN tree :
        tree[p].M = 0 =>
            /\ tree[p].classification \in Labels
            /\ tree[p].left = NULL
            /\ tree[p].right = NULL

\* C5: on a subset of size M >= 1 get_most_frequent stores in *freq the largest
\* number of subset examples that share a label and in *label the smallest
\* label with that count.
C5_MostFrequent ==
    (call.fn = "get_most_frequent" /\ call.M >= 1) =>
        /\ call.result.label \in Labels
        /\ call.result.freq = LabelCount(call.indices, call.result.label)
        /\ \A l \in Labels : LabelCount(call.indices, l) <= call.result.freq
        /\ \A l \in Labels :
              LabelCount(call.indices, l) = call.result.freq => call.result.label <= l

C5_Witness ==
    /\ call.fn = "get_most_frequent"
    /\ call.M = 2
    /\ LabelCount(call.indices, 0) = 1
    /\ LabelCount(call.indices, 1) = 1
    /\ call.result = [label |-> 0, freq |-> 1]

\* C6: with A the subset examples below 128 at the pixel and B the others,
\* gini_impurity returns (giniA*|A| + giniB*|B|)/M, where the gini of a group
\* is 1 - sum over the labels of (count/size)^2, a value in [0, 1], when A and
\* B are both non-empty, and NaN when one of them is empty.
RECURSIVE SumSquares(_, _)
SumSquares(G, l) ==
    IF l >= NumLabels THEN 0
    ELSE LET c == Cardinality({j \in G : data.labels[call.indices[j]] = l})
         IN c * c + SumSquares(G, l + 1)

C6_GroupA == {j \in 1 .. call.M : data.images[call.indices[j]][call.pixel] < 128}
C6_GroupB == (1 .. call.M) \ C6_GroupA

C6_GiniValue ==
    (call.fn = "gini_impurity") =>
        LET a == Cardinality(C6_GroupA)
            b == Cardinality(C6_GroupB)
            \* giniX * |X| = (|X|^2 - sum of squares) / |X|
            num == (a * a - SumSquares(C6_GroupA, 0)) * b + (b * b - SumSquares(C6_GroupB, 0)) * a
            den == a * b * call.M
        IN IF a = 0 \/ b = 0
           THEN call.result.k = "nan"
           ELSE /\ call.result.k = "rat"
                /\ call.result.n * den = num * call.result.d
                /\ 0 <= call.result.n
                /\ call.result.n <= call.result.d

C6_Witness ==
    /\ call.fn = "gini_impurity"
    /\ Cardinality(C6_GroupA) = 2
    /\ Cardinality(C6_GroupB) = 1
    /\ call.result = [k |-> "rat", n |-> 1, d |-> 3]

\* C7: split_data, entered with both sizes 0, returns as left array the input
\* indices whose intensity at the pixel is below 128 and as right array the
\* other input indices, each in the order of the input; the two sizes are the
\* lengths of the arrays and add up to M, and every input index is in exactly
\* one array.
C7_SplitPartition ==
    (call.fn = "split_data") =>
        LET Below(x) == data.images[x][call.pixel] < 128
            NotBelow(x) == ~Below(x)
            left == call.result.subsets[1]
            right == call.result.subsets[2]
        IN /\ left = SelectSeq(call.indices, Below)
           /\ right = SelectSeq(call.indices, NotBelow)
           /\ call.result.left_size = Len(left)
           /\ call.result.right_size = Len(right)
           /\ call.result.left_size + call.result.right_size = call.M
           /\ \A x \in Range(call.indices) : (x \in Range(left)) # (x \in Range(right))

C7_Witness ==
    /\ call.fn = "split_data"
    /\ call.indices = <<0, 1, 2>>
    /\ call.result.subsets = <<(<<0, 2>>), (<<1>>)>>

\* the bytes of the training images at the pixels the split nodes test
BytesTested == {ReadPixel(data, heap, i, tree[p].pixel) :
                    i \in 0 .. (data.num_items - 1),
                    p \in {q \in DOMAIN tree : ~IsLeaf(tree[q])}}

\* C8 as stated: whatever the intensities of the training set (anywhere in
\* 0..255), classifying every training example against the returned tree gives
\* the example's own label for at least 95% of the examples.  Stated on the
\* trees whose split nodes all test a pixel of the image.
C8_TrainingAccuracyAnyIntensity ==
    (pc = "done" /\ ~HasStrayPixel(tree)) => 100 * total_correct >= 95 * data.num_items

\* C8 as amended: when every training image holds 0 or 255 at every pixel
\* that a split node of the returned tree tests, classifying every training
\* example gives the example's own label for at least 95% of the examples.
C8_TrainingAccuracyBinarised ==
    (pc = "done" /\ BytesTested \subseteq {0, 255}) =>
        100 * total_correct >= 95 * data.num_items

C8_Witness ==
    /\ pc = "done"
    /\ BytesTested = {0, 255}
    /\ data.num_items = 2
    /\ total_correct = 2

\* C9: every node of a returned tree is a leaf (classification a label, pixel
\* -1, no children) or a split (classification -1, pixel in 0..NumPixels-1,
\* two children), and dec_tree_classify returns a label for every example.
C9_NodeShape ==
    Returned =>
        /\ \A p \in DOMAIN tree :
              \/ /\ tree[p].classification \in Labels
                 /\ tree[p].pixel = -1
                 /\ tree[p].left = NULL
                 /\ tree[p].right = NULL
              \/ /\ tree[p].classification = -1
                 /\ tree[p].pixel \in Pixels
                 /\ tree[p].left \in DOMAIN tree
                 /\ tree[p].right \in DOMAIN tree
        /\ pc = "done" => \A i \in DOMAIN predicted : predicted[i] \in Labels

\* C10: on a training set whose intensities are all 0 or 255 dec_tree_classify
\* takes at every split node the side split_data put the example on, so every
\* training example reaches the leaf whose subset contains it.
C10_RoutedToOwnLeaf ==
    (pc = "done" /\ \A i \in DOMAIN data.images, x \in Pixels : data.images[i][x] \in {0, 255}) =>
        \A i \in DOMAIN data.images :
            i \in Range(tree[RoutedLeaf(tree, <<>>, data, heap, i)].indices)

====
